---- MODULE Spec2Model ----
(***************************************************************************)
(* Model of the unstorage S3 driver (src/src/index.ts, lines 1-232; lines  *)
(* 234-313 hold an earlier version with the same buildKey, getKeys and     *)
(* module-level s3Client).                                                 *)
(*                                                                         *)
(* Strings are sequences of one-character strings, so that startsWith and  *)
(* slice can be computed: the key "/a" is <<"/", "a">>.                    *)
(***************************************************************************)
EXTENDS Integers, Sequences, FiniteSets, TLC

VARIABLES
  norm,               \* the last buildKey evaluation of the normalizer runs
  prefix,             \* options.prefix, captured by the driver's closure
  bucket,             \* the backend container: physical path -> stored bytes
  last,               \* the last completed single-key operation and its outcome
  call,               \* the listing call in progress: "none", "getKeys", "clear"
  pc,                 \* its position
  keys,               \* getKeys' accumulator, then clear's remaining keys
  hasMore,            \* getKeys' hasMore
  continuationToken,  \* getKeys' continuationToken
  errors,             \* clear's errors Map (its keys' Key part)
  requests,           \* history: the list requests of the call, with responses
  listed,             \* history: what getKeys returned to clear
  submitted,          \* history: the keys clear sent in bulk-delete requests
  batches,            \* history: the number of bulk-delete requests sent
  quiet,              \* history: no write or remove since the call began
  cleared,            \* history: a clear completed and nothing was written since
  prevKeys,           \* history: the previous getKeys result, if nothing changed
  written,            \* history: the logical keys ever written successfully
  s3Client,           \* the module-level `let s3Client`
  handles,            \* the S3Client objects created so far
  adapter,            \* each driver instance's lifecycle state
  via                 \* history: the handle each instance's last request used

vars == <<norm, prefix, bucket, last, call, pc, keys, hasMore,
          continuationToken, errors, requests, listed, submitted, batches,
          quiet, cleared, prevKeys, written, s3Client, handles, adapter,
          via>>

storeVars == <<prefix, bucket, last, call, pc, keys, hasMore,
               continuationToken, errors, requests, listed, submitted,
               batches, quiet, cleared, prevKeys, written>>

lifeVars == <<s3Client, handles, adapter, via>>

-----------------------------------------------------------------------------
(* Bounds *)

MaxKeyLen == 3      \* longest logical key given to the normalizer runs
MaxPrefixLen == 2   \* longest configured prefix of the normalizer runs
PageSize == 2       \* keys per listing page (1000 at the backend)
MaxAcc == 4         \* the model keeps this many entries of getKeys' accumulator
MaxRequests == 3    \* the request counter of the history saturates here
MaxAdapters == 2    \* driver instances constructed in the lifecycle runs

-----------------------------------------------------------------------------
(* JavaScript values and strings *)

\* The value undefined where a string may stand (no string has this shape).
Undefined == <<"undefined">>

Slash == <<"/">>

\* What a template literal prints for the value undefined.
UndefinedText == <<"u", "n", "d", "e", "f", "i", "n", "e", "d">>

RECURSIVE SeqsUpTo(_, _)
SeqsUpTo(S, n) ==
  IF n = 0 THEN {<<>>}
  ELSE LET shorter == SeqsUpTo(S, n - 1)
       IN  shorter \cup {Append(s, c) : s \in shorter, c \in S}

\* String.prototype.startsWith('/')
StartsWithSlash(s) == Len(s) > 0 /\ s[1] = "/"

\* String.prototype.slice(1)
Slice1(s) == SubSeq(s, 2, Len(s))

\* `${v}` for a string or undefined
Template(v) == IF v = Undefined THEN UndefinedText ELSE v

-----------------------------------------------------------------------------
(* Key Normalizer *)

\* A normalizer that forgets to strip the key's leading separator.
BuildKeyKeepSlash(p, key) ==
  LET newPrefix == IF p # Undefined /\ StartsWithSlash(p) THEN Slice1(p) ELSE p
  IN  Template(newPrefix) \o Slash \o key

\* buildKey, index.ts 45-49, with the closure's prefix as p
buildKey(p, key) ==
  LET k == IF StartsWithSlash(key) THEN Slice1(key) ELSE key
      newPrefix == IF p # Undefined /\ StartsWithSlash(p) THEN Slice1(p) ELSE p
  IN  Template(newPrefix) \o Slash \o k

-----------------------------------------------------------------------------
(* Text and bytes: the SDK sends a string body as UTF-8, TextDecoder reads   *)
(* UTF-8 back. Texts are sequences of code points below 2048.                *)

Replacement == 65533

Utf8Char(c) == IF c < 128 THEN <<c>> ELSE <<192 + (c \div 64), 128 + (c % 64)>>

RECURSIVE Utf8Encode(_)
Utf8Encode(t) ==
  IF t = <<>> THEN <<>> ELSE Utf8Char(Head(t)) \o Utf8Encode(Tail(t))

\* new TextDecoder().decode(item), index.ts 92
RECURSIVE Utf8Decode(_)
Utf8Decode(b) ==
  IF b = <<>> THEN <<>>
  ELSE IF b[1] < 128 THEN <<b[1]>> \o Utf8Decode(Tail(b))
  ELSE IF /\ b[1] >= 194 /\ b[1] < 224
          /\ Len(b) >= 2 /\ b[2] >= 128 /\ b[2] < 192
       THEN <<(b[1] - 192) * 64 + (b[2] - 128)>> \o Utf8Decode(SubSeq(b, 3, Len(b)))
  ELSE <<Replacement>> \o Utf8Decode(Tail(b))

-----------------------------------------------------------------------------
(* The backend as the SDK client presents it: send() resolves with the      *)
(* response of a 2xx answer and rejects (throws) on every other answer.     *)

CharCode(c) ==
  CASE c = "/" -> 47
    [] c = "a" -> 97
    [] c = "b" -> 98
    [] c = "p" -> 112
    [] OTHER -> 122

\* Binary (UTF-8) order of two paths, the order of an S3 listing.
RECURSIVE Before(_, _)
Before(s, t) ==
  IF t = <<>> THEN FALSE
  ELSE IF s = <<>> THEN TRUE
  ELSE IF s[1] # t[1] THEN CharCode(s[1]) < CharCode(t[1])
  ELSE Before(Tail(s), Tail(t))

RECURSIVE Sorted(_)
Sorted(S) ==
  IF S = {} THEN <<>>
  ELSE LET first == CHOOSE x \in S : \A y \in S \ {x} : Before(x, y)
       IN  <<first>> \o Sorted(S \ {first})

Range(s) == {s[i] : i \in 1..Len(s)}

Take(s, n) == SubSeq(s, 1, IF Len(s) < n THEN Len(s) ELSE n)

Drop(s, n) == SubSeq(s, n + 1, Len(s))

SelectAfter(s, token) ==
  IF token = Undefined THEN s ELSE SelectSeq(s, LAMBDA x : Before(token, x))

Thrown(name) == [thrown |-> name]

\* s3Client.send(new HeadObjectCommand(...)), index.ts 52-57
HeadObject(b, path, fault) ==
  IF fault THEN Thrown("AccessDenied")
  ELSE IF path \notin DOMAIN b THEN Thrown("NotFound")
  ELSE [thrown |-> "", httpStatusCode |-> 200, DeleteMarker |-> FALSE,
        LastModified |-> "mtime"]

\* s3Client.send(new GetObjectCommand(...)), index.ts 74-79
GetObject(b, path, fault) ==
  IF fault THEN Thrown("AccessDenied")
  ELSE IF path \notin DOMAIN b THEN Thrown("NoSuchKey")
  ELSE [thrown |-> "", httpStatusCode |-> 200, Body |-> <<b[path]>>]

\* s3Client.send(new PutObjectCommand(input)), index.ts 188: the bucket after
\* the request. An input without Body stores a zero-length object.
PutObject(b, input) ==
  [x \in DOMAIN b \cup {input.Key} |->
     IF x = input.Key THEN input.Body ELSE b[x]]

\* s3Client.send(new DeleteObjectCommand(input)), index.ts 212: the bucket
\* after the request. Deleting an absent key succeeds.
DeleteObject(b, path) == [x \in DOMAIN b \ {path} |-> b[x]]

\* s3Client.send(new ListObjectsV2Command(...)), index.ts 104-109. The
\* continuation token stands for the position after the last key of a page;
\* the response echoes the request's token as ContinuationToken and gives the
\* next page's token as NextContinuationToken.
ListObjectsV2(b, token, fault) ==
  IF fault THEN Thrown("AccessDenied")
  ELSE LET rest == SelectAfter(Sorted(DOMAIN b), token)
           page == Take(rest, PageSize)
           more == Len(rest) > PageSize
       IN  [thrown |-> "", httpStatusCode |-> 200, Contents |-> page,
            IsTruncated |-> more, ContinuationToken |-> token,
            NextContinuationToken |->
              IF more THEN page[Len(page)] ELSE Undefined]

\* s3Client.send(new DeleteObjectsCommand(...)), index.ts 145-155: the bucket
\* after a bulk delete of `batch` in which the keys of `rejected` were refused.
DeleteObjects(b, batch, rejected) ==
  [x \in DOMAIN b \ (Range(batch) \ rejected) |-> b[x]]

\* Its response (Quiet: true): the refused keys only.
DeleteObjectsResponse(rejected) ==
  [thrown |-> "", httpStatusCode |-> 200, Errors |-> rejected]

-----------------------------------------------------------------------------
(* The driver's inputs *)

Keys == {<<"a">>, <<"/", "a">>, <<"b">>}

Prefixes == {Undefined, <<>>, <<"p">>}

Texts == {<<104>>, <<233>>}

MetaPrefix == "x-amz-meta-"

\* opts.meta: <<>> for undefined, or <<mapping>>, a mapping given by its set
\* of names; a name is a sequence of its parts so that
\* startsWith('x-amz-meta-') is computable.
Metas == {<<>>, <<{<<"owner">>}>>, <<{<<MetaPrefix, "owner">>}>>}

\* cleanMeta's names, index.ts 178-186
CleanMeta(meta) ==
  {IF name[1] # MetaPrefix THEN <<MetaPrefix>> \o name ELSE name : name \in meta}

-----------------------------------------------------------------------------
(* Single-key operations *)

NoOp == [op |-> "none", key |-> <<>>, path |-> <<>>, status |-> "ok",
         after |-> "other", sent |-> <<>>]

Done0(op, key, path, status) ==
  [op |-> op, key |-> key, path |-> path, status |-> status,
   after |-> "other", sent |-> <<>>]

Done(op, key, path, status, fields) == fields @@ Done0(op, key, path, status)

\* history: how the operation now issued on `key` relates to the one before.
After(key) ==
  IF last.key = key /\ last.status = "ok"
  THEN IF last.op \in {"setItemRaw", "setItem"} /\ last.hasBody THEN "set"
       ELSE IF last.op = "removeItem" THEN "remove"
       ELSE "other"
  ELSE "other"

\* history: the text of the write just before, when After(key) = "set".
Sent(key) == IF After(key) = "set" THEN last.value ELSE <<>>

ReadOnly == UNCHANGED <<prefix, bucket, call, pc, keys, hasMore,
                        continuationToken, errors, requests, listed,
                        submitted, batches, quiet, cleared, prevKeys, written>>

\* hasItem, index.ts 64-67
hasItem(key) ==
  \E fault \in BOOLEAN :
    LET response == HeadObject(bucket, buildKey(prefix, key), fault)
    IN  /\ last' =
             IF response.thrown # ""
             THEN Done("hasItem", key, buildKey(prefix, key), response.thrown,
                       [after |-> After(key), fresh |-> key \notin written])
             ELSE Done("hasItem", key, buildKey(prefix, key), "ok",
                       [after |-> After(key), fresh |-> key \notin written,
                        value |-> response.httpStatusCode = 200
                                    /\ ~response.DeleteMarker])
        /\ ReadOnly
        /\ UNCHANGED <<norm, lifeVars>>

\* getItemRaw's result, index.ts 80-82: <<bytes>>, or <<>> for undefined.
\* A response's Body is <<bytes>> too, <<>> when the response has none.
GetItemRawValue(response) ==
  IF response.httpStatusCode = 200 /\ response.Body # <<>>
  THEN response.Body ELSE <<>>

\* getItemRaw, index.ts 73-83
getItemRaw(key) ==
  \E fault \in BOOLEAN :
    LET response == GetObject(bucket, buildKey(prefix, key), fault)
    IN  /\ last' =
             IF response.thrown # ""
             THEN Done("getItemRaw", key, buildKey(prefix, key),
                       response.thrown, [after |-> After(key)])
             ELSE Done("getItemRaw", key, buildKey(prefix, key), "ok",
                       [after |-> After(key),
                        value |-> GetItemRawValue(response)])
        /\ ReadOnly
        /\ UNCHANGED <<norm, lifeVars>>

\* getItem's result from getItemRaw's, index.ts 89-94
GetItemValue(item) == IF item # <<>> THEN <<Utf8Decode(item[1])>> ELSE <<>>

\* getItem, index.ts 89-94
getItem(key) ==
  \E fault \in BOOLEAN :
    LET response == GetObject(bucket, buildKey(prefix, key), fault)
    IN  /\ last' =
             IF response.thrown # ""
             THEN Done("getItem", key, buildKey(prefix, key), response.thrown,
                       [after |-> After(key), sent |-> Sent(key)])
             ELSE Done("getItem", key, buildKey(prefix, key), "ok",
                       [after |-> After(key), sent |-> Sent(key),
                        value |-> GetItemValue(GetItemRawValue(response))])
        /\ ReadOnly
        /\ UNCHANGED <<norm, lifeVars>>

\* getMeta, index.ts 131-137
getMeta(key) ==
  \E fault \in BOOLEAN :
    LET response == HeadObject(bucket, buildKey(prefix, key), fault)
    IN  /\ last' =
             IF response.thrown # ""
             THEN Done("getMeta", key, buildKey(prefix, key), response.thrown,
                       <<>>)
             ELSE Done("getMeta", key, buildKey(prefix, key), "ok",
                       [value |-> [mtime |-> response.LastModified]])
        /\ ReadOnly
        /\ UNCHANGED <<norm, lifeVars>>

\* history: a write or remove request was accepted by the backend.
Changed == /\ quiet' = FALSE
           /\ prevKeys' = <<>>

\* The PutObjectCommandInput of setItemRaw, index.ts 170-187
PutInput(key, value, meta, hasBody) ==
  [Key |-> key,
   Body |-> IF hasBody THEN Utf8Encode(value) ELSE <<>>,
   Metadata |-> IF meta # <<>> THEN <<CleanMeta(meta[1])>> ELSE <<>>]

SetItemAs(op, key, value, meta, hasBody) ==
  \E fault \in BOOLEAN :
    LET input == PutInput(key, value, meta, hasBody)
    IN  /\ IF fault
           THEN /\ last' = Done(op, key, input.Key, "AccessDenied",
                                [hasBody |-> hasBody, value |-> value,
                                 meta |-> input.Metadata])
                /\ UNCHANGED <<bucket, quiet, cleared, prevKeys, written>>
           ELSE /\ last' = Done(op, key, input.Key, "ok",
                                [hasBody |-> hasBody, value |-> value,
                                 meta |-> input.Metadata])
                /\ bucket' = PutObject(bucket, input)
                /\ written' = written \cup {key}
                /\ cleared' = FALSE
                /\ Changed
        /\ UNCHANGED <<prefix, call, pc, keys, hasMore, continuationToken,
                       errors, requests, listed, submitted, batches>>
        /\ UNCHANGED <<norm, lifeVars>>

\* setItemRaw, index.ts 169-189
setItemRaw(key, value, meta, hasBody) ==
  SetItemAs("setItemRaw", key, value, meta, hasBody)

\* setItem, index.ts 195-197
setItem(key, value, meta, hasBody) ==
  SetItemAs("setItem", key, value, meta, hasBody)

\* removeItem, index.ts 204-213 (an unversioned bucket: opts.version is absent)
removeItem(key) ==
  \E fault \in BOOLEAN :
    LET input == [Key |-> key]
    IN  /\ IF fault
           THEN /\ last' = Done("removeItem", key, input.Key, "AccessDenied",
                                <<>>)
                /\ UNCHANGED <<bucket, quiet, prevKeys>>
           ELSE /\ last' = Done("removeItem", key, input.Key, "ok", <<>>)
                /\ bucket' = DeleteObject(bucket, input.Key)
                /\ Changed
        /\ UNCHANGED <<prefix, call, pc, keys, hasMore, continuationToken,
                       errors, requests, listed, submitted, batches, cleared,
                       written>>
        /\ UNCHANGED <<norm, lifeVars>>

-----------------------------------------------------------------------------
(* getKeys and clear: one call at a time, its awaits interleaved with the     *)
(* single-key operations of other callers.                                    *)

NoRequests == [n |-> 0, tick |-> FALSE, token |-> Undefined,
               expected |-> Undefined, truncated |-> FALSE,
               next |-> Undefined, thrown |-> ""]

Min(a, b) == IF a < b THEN a ELSE b

\* history: the list request just sent with `token`, and its response.
Requested(token, response) ==
  [n |-> Min(requests.n + 1, MaxRequests), tick |-> ~requests.tick,
   token |-> token, expected |-> requests.next,
   truncated |-> IF response.thrown = "" THEN response.IsTruncated ELSE FALSE,
   next |-> IF response.thrown = "" THEN response.NextContinuationToken
            ELSE Undefined,
   thrown |-> response.thrown]

\* The first lines of getKeys, index.ts 100-102
EnterGetKeys ==
  /\ pc' = "list"
  /\ keys' = <<>>
  /\ hasMore' = FALSE
  /\ continuationToken' = Undefined
  /\ requests' = NoRequests
  /\ quiet' = TRUE

\* A caller calls getKeys.
GetKeysCall ==
  /\ call = "none"
  /\ call' = "getKeys"
  /\ EnterGetKeys
  /\ UNCHANGED <<prefix, bucket, last, errors, listed, submitted, batches,
                 cleared, prevKeys, written>>
  /\ UNCHANGED <<norm, lifeVars>>

\* A caller calls clear, whose first line calls getKeys, index.ts 142.
ClearCall ==
  /\ call = "none"
  /\ call' = "clear"
  /\ EnterGetKeys
  /\ errors' = {}
  /\ listed' = <<>>
  /\ submitted' = <<>>
  /\ batches' = 0
  /\ UNCHANGED <<prefix, bucket, last, cleared, prevKeys, written>>
  /\ UNCHANGED <<norm, lifeVars>>

\* The token getKeys keeps for its next request, index.ts 119-121
NextToken(response, more, token) ==
  IF more THEN response.ContinuationToken ELSE token

\* A loop test that gives up once a response has reported a rejected key.
AfterBatchStopOnError(remaining, errs) ==
  IF Len(remaining) > 0 /\ errs = {} THEN "delete" ELSE "done"

\* clear's loop test after a batch, index.ts 144
AfterBatch(remaining, errs) ==
  IF Len(remaining) > 0 THEN "delete" ELSE "done"

\* One turn of getKeys' do-while loop, index.ts 103-124: a list request, its
\* response, and the return when the loop ends.
ListStep ==
  /\ pc = "list"
  /\ \E fault \in BOOLEAN :
       LET response == ListObjectsV2(bucket, continuationToken, fault)
           ok == response.thrown = "" /\ response.httpStatusCode = 200
           got == IF ok
                  THEN Take(keys \o SelectSeq(response.Contents,
                                               LAMBDA k : k # <<>>), MaxAcc)
                  ELSE keys
           more == IF ok THEN response.IsTruncated ELSE hasMore
       IN  /\ requests' = Requested(continuationToken, response)
           /\ IF response.thrown # ""
              THEN /\ pc' = "failed"
                   /\ UNCHANGED <<keys, hasMore, continuationToken, listed,
                                  cleared>>
              ELSE /\ keys' = got
                   /\ hasMore' = more
                   /\ continuationToken' =
                        IF ok THEN NextToken(response, more, continuationToken)
                        ELSE continuationToken
                   /\ pc' = IF more THEN "list"
                            ELSE IF call = "getKeys" THEN "done"
                            ELSE AfterBatch(got, {})
                   /\ listed' = IF ~more /\ call = "clear" THEN got ELSE listed
                   /\ cleared' = IF ~more /\ call = "clear" /\ got = <<>>
                                 THEN quiet ELSE cleared
  /\ UNCHANGED <<prefix, bucket, last, call, errors, submitted, batches,
                 quiet, prevKeys, written>>
  /\ UNCHANGED <<norm, lifeVars>>

\* The batch size of clear, index.ts 149 (999 against pages of 1000)
BatchLimit == PageSize - 1

\* One turn of clear's while loop, index.ts 144-161: a bulk-delete request
\* and its response, in which the backend may refuse any of the keys.
DeleteStep ==
  /\ call = "clear"
  /\ pc = "delete"
  /\ \E fault \in BOOLEAN :
       LET batch == Take(keys, BatchLimit)
           remaining == Drop(keys, BatchLimit)
       IN  /\ keys' = remaining
           /\ submitted' = submitted \o batch
           /\ batches' = batches + 1
           /\ IF fault
              THEN /\ pc' = "failed"
                   /\ requests' = [requests EXCEPT !.thrown = "AccessDenied"]
                   /\ UNCHANGED <<bucket, errors, last, cleared>>
                   /\ UNCHANGED <<quiet, prevKeys>>
              ELSE \E rejected \in SUBSET Range(batch) :
                     /\ bucket' = DeleteObjects(bucket, batch, rejected)
                     /\ errors' =
                          LET response == DeleteObjectsResponse(rejected)
                          IN  IF response.httpStatusCode = 200
                              THEN errors \cup response.Errors ELSE errors
                     /\ pc' = AfterBatch(remaining, errors')
                     /\ last' = Done0("clear", <<>>, <<>>, "ok")
                     /\ prevKeys' = <<>>
                     /\ cleared' = IF pc' = "done" THEN quiet ELSE cleared
                     /\ UNCHANGED <<requests, quiet>>
  /\ UNCHANGED <<prefix, call, hasMore, continuationToken, listed, written>>
  /\ UNCHANGED <<norm, lifeVars>>

\* The caller takes the result (or the error) of the call.
CallReturn ==
  /\ pc \in {"done", "failed"}
  /\ prevKeys' = IF call = "getKeys" /\ pc = "done" /\ quiet
                 THEN <<keys>> ELSE prevKeys
  /\ call' = "none"
  /\ pc' = "idle"
  /\ keys' = <<>>
  /\ hasMore' = FALSE
  /\ continuationToken' = Undefined
  /\ requests' = NoRequests
  /\ errors' = {}
  /\ listed' = <<>>
  /\ submitted' = <<>>
  /\ batches' = 0
  /\ UNCHANGED <<prefix, bucket, last, quiet, cleared, written>>
  /\ UNCHANGED <<norm, lifeVars>>

-----------------------------------------------------------------------------
(* Lifecycle: the module-level s3Client and the driver instances *)

Adapters == 1..MaxAdapters

Unbuilt == [state |-> "unbuilt", own |-> 0]

NoRequest == [handle |-> 0, pending |-> FALSE]

\* new S3Client(...), index.ts 38-43
NewClient(accessKeyId, secretAccessKey) ==
  [credentials |-> IF secretAccessKey /\ accessKeyId THEN "explicit"
                   ELSE "default",
   destroyed |-> FALSE]

\* s3StorageDriver(options), index.ts 33-43: options.bucket is "" or a name,
\* the two credential options are given or not.
Construct(a, bucketName, accessKeyId, secretAccessKey) ==
  /\ adapter[a].state = "unbuilt"
  /\ IF bucketName = ""
     THEN /\ adapter' = [adapter EXCEPT ![a] = [state |-> "invalid", own |-> 0]]
          /\ UNCHANGED <<s3Client, handles>>
     ELSE /\ handles' = Append(handles, NewClient(accessKeyId, secretAccessKey))
          /\ s3Client' = Len(handles')
          /\ adapter' = [adapter EXCEPT
                           ![a] = [state |-> "live", own |-> Len(handles')]]
  /\ UNCHANGED via
  /\ UNCHANGED <<norm, storeVars>>

\* Any operation of instance a reaches s3Client.send(...), e.g. index.ts 52.
Send(a) ==
  /\ adapter[a].state = "live"
  /\ ~via[a].pending
  /\ via' = [via EXCEPT ![a] = [handle |-> s3Client, pending |-> TRUE]]
  /\ UNCHANGED <<s3Client, handles, adapter>>
  /\ UNCHANGED <<norm, storeVars>>

\* The request of instance a is answered.
Receive(a) ==
  /\ via[a].pending
  /\ via' = [via EXCEPT ![a].pending = FALSE]
  /\ UNCHANGED <<s3Client, handles, adapter>>
  /\ UNCHANGED <<norm, storeVars>>

\* dispose, index.ts 215-217, called once the instance's own requests ended
Dispose(a) ==
  /\ adapter[a].state = "live"
  /\ ~via[a].pending
  /\ handles' = [handles EXCEPT ![s3Client].destroyed = TRUE]
  /\ adapter' = [adapter EXCEPT ![a].state = "disposed"]
  /\ UNCHANGED <<s3Client, via>>
  /\ UNCHANGED <<norm, storeVars>>

-----------------------------------------------------------------------------
(* The storage specification: one driver instance over one bucket *)

NoNorm == [done |-> FALSE, key |-> <<>>, path |-> <<>>, slashed |-> <<>>]

\* The first instance has been constructed with a bucket name.
OneDriver ==
  /\ s3Client = 1
  /\ handles = <<NewClient(FALSE, FALSE)>>
  /\ adapter = [a \in Adapters |->
                  IF a = 1 THEN [state |-> "live", own |-> 1] ELSE Unbuilt]
  /\ via = [a \in Adapters |-> NoRequest]

EmptyStore ==
  /\ bucket = <<>>
  /\ last = NoOp
  /\ call = "none"
  /\ pc = "idle"
  /\ keys = <<>>
  /\ hasMore = FALSE
  /\ continuationToken = Undefined
  /\ errors = {}
  /\ requests = NoRequests
  /\ listed = <<>>
  /\ submitted = <<>>
  /\ batches = 0
  /\ quiet = TRUE
  /\ cleared = FALSE
  /\ prevKeys = <<>>
  /\ written = {}

Init ==
  /\ norm = NoNorm
  /\ prefix \in Prefixes
  /\ EmptyStore
  /\ OneDriver

HasItem == \E key \in Keys : hasItem(key)
GetItemRaw == \E key \in Keys : getItemRaw(key)
GetItem == \E key \in Keys : getItem(key)
GetMeta == \E key \in Keys : getMeta(key)
SetItemRaw ==
  \E key \in Keys, value \in Texts, meta \in Metas, hasBody \in BOOLEAN :
    setItemRaw(key, value, meta, hasBody)
SetItem ==
  \E key \in Keys, value \in Texts, meta \in Metas, hasBody \in BOOLEAN :
    setItem(key, value, meta, hasBody)
RemoveItem == \E key \in Keys : removeItem(key)

Next ==
  \/ HasItem
  \/ GetItemRaw
  \/ GetItem
  \/ GetMeta
  \/ SetItemRaw
  \/ SetItem
  \/ RemoveItem
  \/ GetKeysCall
  \/ ClearCall
  \/ ListStep
  \/ DeleteStep
  \/ CallReturn

\* The whole storage machine. Its claims are checked on its two parts below,
\* each with every interleaving of the operations the claims speak of.
Spec == Init /\ [][Next]_vars

\* The single-key operations.
ItemNext ==
  \/ HasItem
  \/ GetItemRaw
  \/ GetItem
  \/ GetMeta
  \/ SetItemRaw
  \/ SetItem
  \/ RemoveItem

ItemSpec == Init /\ [][ItemNext]_vars

\* Listing and clearing, with other callers writing and removing meanwhile
\* (a listing reads no body and no metadata: one text, no metadata).
Write == \E key \in Keys : setItemRaw(key, <<104>>, <<>>, TRUE)

ListNext ==
  \/ Write
  \/ RemoveItem
  \/ GetKeysCall
  \/ ClearCall
  \/ ListStep
  \/ DeleteStep
  \/ CallReturn

ListSpec == Init /\ [][ListNext]_vars

\* The same with a single caller, who awaits each operation before the next.
SeqWrite == call = "none" /\ Write

SeqRemove == call = "none" /\ RemoveItem

SeqListNext ==
  \/ SeqWrite
  \/ SeqRemove
  \/ GetKeysCall
  \/ ClearCall
  \/ ListStep
  \/ DeleteStep
  \/ CallReturn

\* Each await of a call in progress resumes once the backend has answered.
FairListSpec ==
  /\ Init /\ [][SeqListNext]_vars
  /\ WF_vars(ListStep) /\ WF_vars(DeleteStep) /\ WF_vars(CallReturn)

-----------------------------------------------------------------------------
(* The normalizer runs: buildKey on a key and on the key behind a "/" *)

NormPrefixes == {Undefined} \cup SeqsUpTo({"/", "p"}, MaxPrefixLen)

NormKeys == SeqsUpTo({"/", "a"}, MaxKeyLen)

NormInit ==
  /\ norm = NoNorm
  /\ prefix \in NormPrefixes
  /\ EmptyStore
  /\ OneDriver

Normalize ==
  /\ \E key \in NormKeys :
       norm' = [done |-> TRUE, key |-> key, path |-> buildKey(prefix, key),
                slashed |-> buildKey(prefix, Slash \o key)]
  /\ UNCHANGED <<storeVars, lifeVars>>

NormSpec == NormInit /\ [][Normalize]_vars

-----------------------------------------------------------------------------
(* The lifecycle runs: several instances made by one module *)

LifeInit ==
  /\ norm = NoNorm
  /\ prefix = Undefined
  /\ EmptyStore
  /\ s3Client = 0
  /\ handles = <<>>
  /\ adapter = [a \in Adapters |-> Unbuilt]
  /\ via = [a \in Adapters |-> NoRequest]

ConstructDriver ==
  \E a \in Adapters, bucketName \in {"", "bucket"},
     accessKeyId \in BOOLEAN, secretAccessKey \in BOOLEAN :
    Construct(a, bucketName, accessKeyId, secretAccessKey)

SendRequest == \E a \in Adapters : Send(a)

ReceiveResponse == \E a \in Adapters : Receive(a)

DisposeDriver == \E a \in Adapters : Dispose(a)

LifeNext ==
  \/ ConstructDriver
  \/ SendRequest
  \/ ReceiveResponse
  \/ DisposeDriver

LifeSpec == LifeInit /\ [][LifeNext]_vars

-----------------------------------------------------------------------------
(* Claims about the single-key operations (ItemSpec) *)

\* hasItem(key) has just completed without a backend fault of its own.
HasItemAnswered == last.op = "hasItem" /\ last.status # "AccessDenied"

\* C1: hasItem(k) returns true immediately after a successful
\* setItemRaw(k, v, {hasBody: true}) and false after a subsequent successful
\* removeItem(k), for every configured prefix.
C1_HasItemFollowsWrites ==
  HasItemAnswered =>
    /\ last.after = "set" => last.status = "ok" /\ last.value = TRUE
    /\ last.after = "remove" => last.status = "ok" /\ last.value = FALSE

\* C2: after a successful setItem(k, t) with a body, getItem(k) returns t.
C2_GetItemRoundTrip ==
  (last.op = "getItem" /\ last.after = "set" /\ last.status # "AccessDenied")
    => last.status = "ok" /\ last.value = <<last.sent>>

\* C3: for a key never written hasItem completes with false (not-found is not
\* raised as an error), while a lookup that fails for another reason is raised
\* and not returned as false.
C3_HasItemFalseWhenAbsent ==
  (last.op = "hasItem" /\ last.fresh) =>
    IF last.status = "AccessDenied" THEN TRUE
    ELSE last.status = "ok" /\ last.value = FALSE

-----------------------------------------------------------------------------
(* Claims about getKeys and clear (ListSpec, FairListSpec) *)

GetKeysReturned == call = "getKeys" /\ pc = "done"

\* A write stores under the logical key itself (index.ts 172), so the paths
\* of the bucket are the keys written and not since removed.
LiveKeys == Sorted(DOMAIN bucket)

\* C4: getKeys returns exactly the keys written and not since removed, each
\* once and in the backend's order, whatever the number of listing pages, and
\* two calls with no write or remove between them return the same keys.
C4_GetKeysReturnsLiveKeys ==
  /\ [](GetKeysReturned /\ quiet =>
          /\ keys = LiveKeys
          /\ prevKeys # <<>> => keys = prevKeys[1])
  /\ (call = "getKeys" /\ pc = "list") ~> (pc \in {"done", "failed"})

\* C5: with no concurrent writer, a clear() that completes, followed by
\* getKeys(), yields an empty sequence.
C5_ClearThenGetKeysEmpty ==
  (GetKeysReturned /\ cleared /\ quiet) => keys = <<>>

\* C7: getKeys requests each page once: the first request carries no token,
\* every later request carries the next-page token returned with the preceding
\* page, and the loop stops at the first page reported as not truncated.
C7_PagesRequestedOnce ==
  (call # "none" /\ requests.n >= 1 /\ requests.thrown = "") =>
    /\ requests.token = requests.expected
    /\ pc = "list" => requests.truncated

-----------------------------------------------------------------------------
(* Claims about the key normalizer (NormSpec) *)

\* The value with exactly one leading "/" removed, if present.
StripOne(v) == IF StartsWithSlash(v) THEN Slice1(v) ELSE v

\* C6 as stated: for any key k, also one that begins with "/", the normalizer
\* gives the same path for k and for "/" + k.
C6_SlashAgnostic == norm.done => norm.path = norm.slashed

\* C6 as it holds: for any key k that does not begin with "/" and any prefix,
\* the normalizer gives the same path for k and for "/" + k.
C6_SlashAgnosticOnce ==
  (norm.done /\ ~StartsWithSlash(norm.key)) => norm.path = norm.slashed

C6_Witness ==
  /\ norm.done
  /\ norm.key = <<"a", "/", "a">>
  /\ prefix = <<"/", "p">>
  /\ norm.slashed = <<"p", "/", "a", "/", "a">>

\* C9: the path is prefix' + "/" + k', both with exactly one leading "/"
\* removed; with no prefix configured prefix' is empty and the path "/" + k'.
C9_PathShape ==
  norm.done =>
    norm.path = (IF prefix = Undefined THEN <<>> ELSE StripOne(prefix))
                  \o Slash \o StripOne(norm.key)

-----------------------------------------------------------------------------
(* Claims about the lifecycle (LifeSpec) *)

\* C8: each instance owns its Client Handle from construction to its own
\* dispose: its requests go through the handle made at its construction,
\* whatever is constructed later, and that handle is released by no one else.
C8_HandlePerInstance ==
  \A a \in Adapters :
    adapter[a].state = "live" =>
      /\ via[a].handle # 0 => via[a].handle = adapter[a].own
      /\ ~handles[adapter[a].own].destroyed

====
